---- MODULE Spec2Model ----
(***************************************************************************)
(* Tool-call extraction and dispatch loops of the agent demos.             *)
(*                                                                         *)
(* One process is modelled at a time: Init picks the program that is run   *)
(* (variant) and only that program's actions are enabled afterwards.       *)
(*   "index"    src/index.ts, lines 390-937 (runAgent / startAgent)        *)
(*   "parser"   parseTools of src/index.ts applied to any text             *)
(*   "ls"       the depth of an ls tag, from parseTools to listDirectory   *)
(*   "content"  the content of a writefile tag, from the regex to Bun.write *)
(*   "mini"     src/legacy/minimalistic-agent.ts                           *)
(*   "part2"    src/unnamed/part_002 (AgentDemo with a registry)           *)
(*   "demo"     src/index.ts, lines 939-1174 (class AgentDemo)             *)
(*   "sdk"      src/legacy/agent-ai-sdk.ts (AiSdkAgent)                    *)
(*   "part4"    src/unnamed/part_004 (runAgent / startAgent)               *)
(*   "enhanced" src/legacy/agent-ai-sdk.ts (EnhancedAgentDemo)             *)
(*   "modern"   src/legacy/index-modern.tsx with InputPrompt of part_005   *)
(*                                                                         *)
(* Abstractions.  A model response is the sequence of tool tags it holds,  *)
(* in textual order; prose between the tags is dropped (<<>> is a response *)
(* without any tag).  A string built by the code is a tuple of tokens that *)
(* starts with its literal prefix ("Error", "stdout", ...).  The remote    *)
(* model, the file system, the shell and the network are the environment:  *)
(* their answers are chosen with \E.                                       *)
(***************************************************************************)
EXTENDS Integers, Sequences, FiniteSets, TLC

\* ------------------------------------------------------------------ bounds
\* user inputs typed at the prompt during one process
MaxTurns == 2
\* tool tags the remote model may emit during one process, all responses together
MaxToolTags == 2
\* tool tags in one response
MaxTags == 2
\* integer depth attributes of an ls tag run from -DepthBelow to DepthAbove
DepthBelow == 2
DepthAbove == 12
\* characters between `content="` and the closing `" />` of a writefile tag
MaxContentLen == 4

VARIABLES
  variant,       \* which program runs
  vocab,         \* the tool tags the remote model uses in this process
  pc,            \* where the program's single thread of control is
  messages,      \* the conversation history (messages / conversationHistory)
  stack,         \* runAgent activations that are inside their for-loop
  turns,         \* user inputs read so far
  toolBudget,    \* tool tags the remote model may still emit
  provider,      \* whether generateText may reject in this process
  lastResponse,  \* text of the latest generateText result, and who asked
  sent,          \* the messages argument of the latest generateText call
  lastExec,      \* the latest handler invocation: tool, outcome, result
  modelCalls,    \* generateText calls since the last user input (all callers)
  agentCalls,    \* of those, the ones made by the dispatch loop itself
  toolExecs,     \* handler invocations since the last user input
  toolMsgs,      \* tool-result messages appended since the last user input
  transcript,    \* every user input, model response and tool result so far
  toolResponses, \* responses holding a tool tag since the last user input
  batch,         \* the tools run for the latest response, in the order they ran
  probe          \* a function applied on its own: its argument and its value

vars == <<variant, vocab, pc, messages, stack, turns, toolBudget, provider,
          lastResponse, sent, lastExec, modelCalls, agentCalls, toolExecs,
          toolMsgs, transcript, toolResponses, batch, probe>>

\* what is fixed when the process starts
setup == <<variant, vocab, provider>>

\* the counters kept for the dispatch loop of src/index.ts
counters == <<modelCalls, agentCalls, toolExecs, toolMsgs>>

\* what the batch variants record about each response
perResponse == <<toolResponses, batch>>

NoProbe == [of |-> "none", arg |-> <<>>, value |-> <<>>]

\* ------------------------------------------------------------- vocabulary
\* the line the user types at the prompt, told apart by the turn it is typed in
UserInput(turn) == "line " \o ToString(turn)
Args == {"a", "b"}

SeqsUpTo(S, n) == UNION {[1..k -> S] : k \in 0..n}

Last(s) == s[Len(s)]

IsPrefix(s, t) == Len(s) <= Len(t) /\ SubSeq(t, 1, Len(s)) = s

Tag(name, arg) == [name |-> name, arg |-> arg]

Message(role, content) == [role |-> role, content |-> content]

NoExec == [tool |-> Tag("none", "a"), outcome |-> "none", threw |-> FALSE,
           aiOutput |-> <<>>, userOutput |-> <<>>]

NoResponse == [by |-> "none", text |-> <<>>]

\* An error message built by a catch block: `Error <doing> <what>: ${error}`
ErrorMsg(doing, what) == <<"Error", doing, what>>

IsErrorPrefixed(s) == Len(s) > 0 /\ s[1] = "Error"

\* The handlers' result object.  errorMark is the cross the catch blocks put
\* in front of the message in userOutput.
ErrorResult(errorMsg) == [aiOutput |-> errorMsg, userOutput |-> <<"errorMark">> \o errorMsg]

OkResult(ai, user) == [aiOutput |-> ai, userOutput |-> user]

\* --------------------------------------------------------- src/index.ts
\* registry order of parseTools: the order of its matchAll passes
ToolOrder == <<"readfile", "writefile", "bash", "get_tweet", "grep", "glob", "webfetch", "ls">>

ToolNames == {ToolOrder[i] : i \in 1..Len(ToolOrder)}

Tags == {Tag(n, a) : n \in ToolNames, a \in Args}

Texts == SeqsUpTo(Tags, MaxTags)

\* text.matchAll(<regex of kind name>): the tags of that kind, in textual order
matchAll(text, name) == SelectSeq(text, LAMBDA t : t.name = name)

RECURSIVE parseToolsFrom(_, _, _)
parseToolsFrom(text, order, k) ==
  IF k > Len(order) THEN <<>>
  ELSE matchAll(text, order[k]) \o parseToolsFrom(text, order, k + 1)

\* a parser that walks the text once and keeps the tags as they come
parseTools_textual(text) == text

parseTools(text) == parseToolsFrom(text, ToolOrder, 1)

\* what the platform call under a handler can do
Outcomes(name) ==
  CASE name = "readfile"  -> {"ok", "throws"}
    [] name = "writefile" -> {"ok", "throws"}
    [] name = "bash"      -> {"exit0", "nonzero", "throws"}
    [] name = "get_tweet" -> {"ok"}
    [] name = "grep"      -> {"ok", "empty", "throws"}
    [] name = "glob"      -> {"ok", "empty", "throws"}
    [] name = "webfetch"  -> {"ok", "notOk", "fetchThrows", "summaryThrows"}
    [] name = "ls"        -> {"ok", "noGitignore", "throws"}
    [] OTHER              -> {"ok"}

\* the outcomes in which an exception is raised inside the handler
Raises(op) == op \in {"throws", "notOk", "fetchThrows", "summaryThrows"}

readFile(filename, op) ==
  IF op = "throws"
  THEN ErrorResult(ErrorMsg("reading", filename))
  ELSE OkResult(<<"content", filename>>, <<"fileMark", filename, "size">>)

writeFile(filename, content, op) ==
  IF op = "throws"
  THEN ErrorResult(ErrorMsg("writing", filename))
  ELSE OkResult(<<"File", filename, "written successfully. New content:", content>>,
                <<"checkMark", filename, "written", "size">>)

getTweet(tweet_id) == OkResult(<<"Tweet", tweet_id>>, <<"birdMark", "Tweet", tweet_id, "retrieved">>)

\* Bun.spawnSync returns for every exit status; only a failure to spawn throws.
\* The handler reads result.stdout and nothing else of the result.
bash_nocatch(command, op) ==
  IF op = "throws"
  THEN [aiOutput |-> <<"rejected">>, userOutput |-> <<"rejected">>]
  ELSE OkResult(<<"stdout", command>>, <<"boltMark", command, "lines output">>)

bash(command, op) ==
  IF op = "throws"
  THEN ErrorResult(ErrorMsg("executing", "command"))
  ELSE OkResult(<<"stdout", command>>, <<"boltMark", command, "lines output">>)

grep(pattern, directory, op) ==
  CASE op = "throws" -> ErrorResult(ErrorMsg("searching pattern", pattern))
    [] op = "empty"  -> OkResult(<<"No matches found for pattern:", pattern>>,
                                 <<"lensMark", "Found 0 matches for", pattern, directory>>)
    [] OTHER         -> OkResult(<<"stdout", pattern>>,
                                 <<"lensMark", "Found n matches for", pattern, directory>>)

glob(pattern, directory, op) ==
  CASE op = "throws" -> ErrorResult(ErrorMsg("searching files with pattern", pattern))
    [] op = "empty"  -> OkResult(<<"No files found matching pattern:", pattern>>,
                                 <<"folderMark", "Found 0 files matching", pattern, directory>>)
    [] OTHER         -> OkResult(<<"stdout", pattern>>,
                                 <<"folderMark", "Found n files matching", pattern, directory>>)

\* a webFetch without the response.ok test and without the catch
webFetch_unchecked(url, prompt, op) ==
  OkResult(<<"summary", url>>, <<"globeMark", "Fetched and summarized content from", url>>)

\* fetch, the response.ok test, the conversion and the summarisation call are
\* all inside the one try block
webFetch(url, prompt, op) ==
  IF Raises(op)
  THEN ErrorResult(ErrorMsg("fetching", url))
  ELSE OkResult(<<"summary", url>>, <<"globeMark", "Fetched and summarized content from", url>>)

\* a missing .gitignore is swallowed by the inner catch; tree() is in the outer try
listDirectory(path, depth, op) ==
  CASE op = "throws"      -> ErrorResult(ErrorMsg("listing directory", path))
    [] op = "noGitignore" -> OkResult(<<"tree", path, "default excludes">>,
                                      <<"folderMark", "Listed", path>>)
    [] OTHER              -> OkResult(<<"tree", path, "gitignore excludes">>,
                                      <<"folderMark", "Listed", path>>)

executeTool(tool, op) ==
  CASE tool.name = "readfile"  -> readFile(tool.arg, op)
    [] tool.name = "writefile" -> writeFile(tool.arg, "content", op)
    [] tool.name = "bash"      -> bash(tool.arg, op)
    [] tool.name = "get_tweet" -> getTweet(tool.arg)
    [] tool.name = "grep"      -> grep(tool.arg, ".", op)
    [] tool.name = "glob"      -> glob(tool.arg, ".", op)
    [] tool.name = "webfetch"  -> webFetch(tool.arg, "prompt", op)
    [] tool.name = "ls"        -> listDirectory(tool.arg, "3", op)
    [] OTHER                   -> ErrorResult(<<"Unknown tool:", tool.name>>)

\* a handler whose exception escaped its catch
Rejected(result) == result.aiOutput = <<"rejected">>

\* `<tool name="${tool.name}" params="${JSON.stringify(tool.params)}">${aiOutput}</tool>`
ToolMessage(tool, aiOutput) == Message("user", <<"tool", tool.name, tool.arg>> \o aiOutput)

UserMessage(userInput) == Message("user", <<"input", userInput>>)

systemPrompt == Message("system", <<"systemPrompt">>)

Exec(tool, op, result) ==
  [tool |-> tool, outcome |-> op, threw |-> Raises(op),
   aiOutput |-> result.aiOutput, userOutput |-> result.userOutput]

Frame(tools) == [tools |-> tools, i |-> 1]

Top == stack[Len(stack)]

Pop(s) == SubSeq(s, 1, Len(s) - 1)

CurrentTool == Top.tools[Top.i]

\* the system prompt's example of a command the model must not run
Harmful(command) == command = "rm -rf /"

\* Bun.spawnSync({cmd: ["bash", "-c", command]}) ran: the shell was handed the
\* command and exited, with whatever code
ReachedShell(exec) == exec.tool.name = "bash" /\ exec.outcome \in {"exit0", "nonzero"}

\* The tags the remote model draws from during one process: every handler is
\* reached, two tags of one kind, pairs of kinds in both textual orders, and
\* a model that disobeys the prompt's rule on harmful commands.
IndexVocabularies ==
  { {Tag("readfile", "a"), Tag("readfile", "b")},
    {Tag("readfile", "a"), Tag("writefile", "a")},
    {Tag("bash", "a"), Tag("get_tweet", "a")},
    {Tag("grep", "a"), Tag("glob", "a")},
    {Tag("webfetch", "a"), Tag("ls", "a")},
    {Tag("bash", "rm -rf /")} }

\* the remote model: any text over its tags, within the budget of tags
ModelAnswers == {t \in SeqsUpTo(vocab, MaxTags) : Len(t) <= toolBudget}

Spend(text) == toolBudget - Len(text)

\* the statement after messages.push in the for-loop: `await runAgent()`
pcAfterPush_skip == "ret"

pcAfterPush == "call"

\* the state every variant starts from
InitCommon ==
  /\ stack = <<>>
  /\ turns = 0
  /\ toolBudget = MaxToolTags
  /\ provider \in {"reliable", "flaky"}
  /\ lastResponse = NoResponse
  /\ sent = <<>>
  /\ lastExec = NoExec
  /\ modelCalls = 0 /\ agentCalls = 0 /\ toolExecs = 0 /\ toolMsgs = 0
  /\ transcript = <<>>
  /\ toolResponses = 0
  /\ batch = <<>>
  /\ probe = NoProbe

\* ------------------------------------------ src/index.ts: the dispatch loop
\* runAgent's own generateText call goes out with the shared list
CallModel(msgs) ==
  /\ sent' = msgs
  /\ modelCalls' = modelCalls + 1
  /\ agentCalls' = agentCalls + 1

\* startAgent reads a line that is neither empty nor "exit": runAgent(userInput)
\* pushes it and calls the model
startAgent_input ==
  /\ variant = "index" /\ pc = "prompt" /\ turns < MaxTurns
  /\ messages' = Append(messages, UserMessage(UserInput(turns + 1)))
  /\ sent' = messages'
  /\ modelCalls' = 1 /\ agentCalls' = 1 /\ toolExecs' = 0 /\ toolMsgs' = 0
  /\ turns' = turns + 1
  /\ lastExec' = NoExec
  /\ pc' = "call"
  /\ UNCHANGED <<variant, vocab, transcript, toolResponses, batch, probe, stack, toolBudget, provider, lastResponse>>

\* a loop without the "exit" test: the line goes to runAgent like any other
startAgent_exit_asInput ==
  /\ variant = "index" /\ pc = "prompt"
  /\ messages' = Append(messages, UserMessage("exit"))
  /\ sent' = messages'
  /\ modelCalls' = 1 /\ agentCalls' = 1 /\ toolExecs' = 0 /\ toolMsgs' = 0
  /\ lastExec' = NoExec
  /\ pc' = "call"
  /\ UNCHANGED <<variant, vocab, transcript, toolResponses, batch, probe, stack, turns, toolBudget, provider, lastResponse>>

\* startAgent reads "exit": `console.log("Goodbye!"); break;`, and startAgent
\* returns
startAgent_exit ==
  /\ variant = "index" /\ pc = "prompt"
  /\ pc' = "exited"
  /\ UNCHANGED <<variant, vocab, transcript, toolResponses, batch, probe, messages, stack, turns, toolBudget, provider, lastResponse,
                 sent, lastExec, modelCalls, agentCalls, toolExecs, toolMsgs>>

\* a for-loop that gives up after the second model call
loopEntered_limited(tools) == tools # <<>> /\ agentCalls < 2

\* `for (const tool of tools)`: the body runs iff the list is not empty; no
\* counter, depth or repetition test stands between the list and the body
loopEntered(tools) == tools # <<>>

\* generateText resolves; parseTools; an empty list returns, otherwise the
\* for-loop starts and the first handler is invoked
runAgent_response(text) ==
  /\ variant = "index" /\ pc = "call"
  /\ toolBudget' = Spend(text)
  /\ lastResponse' = [by |-> "runAgent", text |-> text]
  /\ LET tools == parseTools(text) IN
       IF ~loopEntered(tools)
       THEN /\ pc' = "ret"
            /\ UNCHANGED <<stack, toolExecs>>
       ELSE /\ pc' = "exec"
            /\ stack' = Append(stack, Frame(tools))
            /\ toolExecs' = toolExecs + 1
  /\ UNCHANGED <<variant, vocab, transcript, toolResponses, batch, probe, messages, turns, provider, sent, lastExec, modelCalls,
                 agentCalls, toolMsgs>>

\* generateText rejects: nothing catches it in runAgent or startAgent
runAgent_modelFails ==
  /\ variant = "index" /\ pc = "call" /\ provider = "flaky"
  /\ pc' = "crashed"
  /\ UNCHANGED <<variant, vocab, transcript, toolResponses, batch, probe, messages, stack, turns, toolBudget, provider, lastResponse, sent,
                 lastExec, modelCalls, agentCalls, toolExecs, toolMsgs>>

\* a loop body that runs the handler and forgets to push its result
LoopBody_noPush(tool, op, result) ==
  /\ lastExec' = Exec(tool, op, result)
  /\ pc' = "call"
  /\ CallModel(messages)
  /\ UNCHANGED <<messages, toolMsgs>>

\* the loop body after `await executeTool(tool)`: push the result, recurse
LoopBody(tool, op, result) ==
  /\ lastExec' = Exec(tool, op, result)
  /\ IF Rejected(result)
     THEN /\ pc' = "crashed"
          /\ UNCHANGED <<messages, sent, modelCalls, agentCalls, toolMsgs>>
     ELSE /\ messages' = Append(messages, ToolMessage(tool, result.aiOutput))
          /\ toolMsgs' = toolMsgs + 1
          /\ pc' = pcAfterPush
          /\ IF pc' = "call"
             THEN CallModel(messages')
             ELSE UNCHANGED <<sent, modelCalls, agentCalls>>

\* a handler other than a successful fetch finishes
runAgent_executeTool(op) ==
  /\ variant = "index" /\ pc = "exec"
  /\ op \in Outcomes(CurrentTool.name)
  /\ ~(CurrentTool.name = "webfetch" /\ op \in {"ok", "summaryThrows"})
  /\ LoopBody(CurrentTool, op, executeTool(CurrentTool, op))
  /\ UNCHANGED <<variant, vocab, transcript, toolResponses, batch, probe, stack, turns, toolBudget, provider, lastResponse, toolExecs>>

\* webFetch: the page was fetched and converted; its own generateText call
\* goes out with a fresh two-message list
webFetch_fetched ==
  /\ variant = "index" /\ pc = "exec" /\ CurrentTool.name = "webfetch"
  /\ sent' = <<Message("system", <<"summarizer">>),
               Message("user", <<"webpage", CurrentTool.arg, "prompt">>)>>
  /\ modelCalls' = modelCalls + 1
  /\ pc' = "summ"
  /\ UNCHANGED <<variant, vocab, transcript, toolResponses, batch, probe, messages, stack, turns, toolBudget, provider, lastResponse,
                 lastExec, agentCalls, toolExecs, toolMsgs>>

\* webFetch: the summary arrives (whatever it holds, it is not parsed)
webFetch_summary(text) ==
  /\ variant = "index" /\ pc = "summ"
  /\ lastResponse' = [by |-> "webFetch", text |-> text]
  /\ LoopBody(CurrentTool, "ok", executeTool(CurrentTool, "ok"))
  /\ UNCHANGED <<variant, vocab, transcript, toolResponses, batch, probe, stack, turns, toolBudget, provider, toolExecs>>

\* webFetch: the summarisation call rejects, inside the try block
webFetch_summaryFails ==
  /\ variant = "index" /\ pc = "summ" /\ provider = "flaky"
  /\ LoopBody(CurrentTool, "summaryThrows", executeTool(CurrentTool, "summaryThrows"))
  /\ UNCHANGED <<variant, vocab, transcript, toolResponses, batch, probe, stack, turns, toolBudget, provider, lastResponse, toolExecs>>

\* a nested runAgent has returned and the for-loop has another tool
runAgent_nextTool ==
  /\ variant = "index" /\ pc = "ret" /\ stack # <<>>
  /\ Top.i < Len(Top.tools)
  /\ stack' = [stack EXCEPT ![Len(stack)].i = @ + 1]
  /\ toolExecs' = toolExecs + 1
  /\ pc' = "exec"
  /\ UNCHANGED <<variant, vocab, transcript, toolResponses, batch, probe, messages, turns, toolBudget, provider, lastResponse, sent,
                 lastExec, modelCalls, agentCalls, toolMsgs>>

\* a nested runAgent has returned and the for-loop is over: this one returns
runAgent_loopEnd ==
  /\ variant = "index" /\ pc = "ret" /\ stack # <<>>
  /\ Top.i = Len(Top.tools)
  /\ stack' = Pop(stack)
  /\ UNCHANGED <<variant, vocab, transcript, toolResponses, batch, probe, pc, messages, turns, toolBudget, provider, lastResponse,
                 sent, lastExec, modelCalls, agentCalls, toolExecs, toolMsgs>>

\* the outermost runAgent has returned to startAgent's while loop
startAgent_resume ==
  /\ variant = "index" /\ pc = "ret" /\ stack = <<>>
  /\ pc' = "prompt"
  /\ UNCHANGED <<variant, vocab, transcript, toolResponses, batch, probe, messages, stack, turns, toolBudget, provider, lastResponse,
                 sent, lastExec, modelCalls, agentCalls, toolExecs, toolMsgs>>

IndexUser ==
  \/ startAgent_input
  \/ startAgent_exit

IndexAgent ==
  \/ /\ variant = "index" /\ pc = "call"
     /\ \E text \in ModelAnswers : runAgent_response(text)
  \/ runAgent_modelFails
  \/ \E op \in {"ok", "throws", "exit0", "nonzero", "empty", "notOk", "fetchThrows",
                "noGitignore"} : runAgent_executeTool(op)
  \/ webFetch_fetched
  \/ \E text \in {<<>>, <<Tag("bash", "a")>>} : webFetch_summary(text)
  \/ webFetch_summaryFails
  \/ runAgent_nextTool
  \/ runAgent_loopEnd
  \/ startAgent_resume

\* ------------------------------------------------- parseTools on its own
\* parseTools applied to any text over the eight tag kinds
parseTools_apply(text) ==
  /\ variant = "parser" /\ pc = "parse"
  /\ lastResponse' = [by |-> "parser", text |-> text]
  /\ stack' = <<Frame(parseTools(text))>>
  /\ pc' = "parsed"
  /\ UNCHANGED <<variant, vocab, transcript, toolResponses, batch, probe, messages, turns, toolBudget, provider, sent,
                 lastExec, modelCalls, agentCalls, toolExecs, toolMsgs>>

\* ------------------------------------------- the depth of an ls tag
\* the depth attribute as written in the tag: absent, empty (depth=""), a
\* text without leading digits, or an integer literal
DepthAttrs ==
  {[kind |-> k, n |-> 0] : k \in {"missing", "empty", "text"}}
    \cup {[kind |-> "int", n |-> n] : n \in (0 - DepthBelow)..DepthAbove}

DefaultDepth == 3
LeastDepth == 1
GreatestDepth == 10

\* parseTools: `depth: match[2] || "3"` (undefined and "" are falsy)
ls_paramDepth(attr) ==
  IF attr.kind \in {"missing", "empty"} THEN [kind |-> "int", n |-> DefaultDepth] ELSE attr

\* parseInt of the parameter string: NaN for a text without leading digits
parseInt(str) ==
  IF str.kind = "int" THEN [nan |-> FALSE, n |-> str.n] ELSE [nan |-> TRUE, n |-> 0]

\* executeTool: `parseInt(tool.params.depth) || 3` (NaN and 0 are falsy)
orDefault(number) == IF number.nan \/ number.n = 0 THEN DefaultDepth ELSE number.n

\* listDirectory: `if (depth < 1) depth = 1; if (depth > 10) depth = 10;`
clampDepth(depth) ==
  LET raised == IF depth < LeastDepth THEN LeastDepth ELSE depth
  IN  IF raised > GreatestDepth THEN GreatestDepth ELSE raised

\* the maxDepth that listDirectory hands to the tree listing for an ls tag
ls_maxDepth(attr) == clampDepth(orDefault(parseInt(ls_paramDepth(attr))))

\* one ls tag goes through parseTools, executeTool and listDirectory
ls_apply(attr) ==
  /\ variant = "ls" /\ pc = "parse"
  /\ probe' = [of |-> "ls", arg |-> attr, value |-> ls_maxDepth(attr)]
  /\ pc' = "parsed"
  /\ UNCHANGED <<variant, vocab, transcript, toolResponses, batch, messages, stack, turns, toolBudget,
                 provider, lastResponse, sent, lastExec, modelCalls, agentCalls, toolExecs, toolMsgs>>

\* ------------------------------------- the content of a writefile tag
\* characters: backslash, double quote, the letters n and t, any other
\* character that is not a line break; tagEnd stands for the `\s*/>` that
\* closes the tag
bs == "\\"
dq == "\""
tagEnd == "/>"
ContentChars == {bs, dq, "n", "t", "x"}

\* what follows `<writefile file="f" content="` in the response
Tails == {body \o <<dq, tagEnd>> : body \in SeqsUpTo(ContentChars, MaxContentLen)}

\* a content group without the escape alternative: `([^"]*)`
RECURSIVE contentGroup_plain(_, _)
contentGroup_plain(s, i) ==
  IF i > Len(s) \/ s[i] = dq THEN i ELSE contentGroup_plain(s, i + 1)

\* `((?:[^"\\]|\\.)*)` from position i: the position where the group stops.
\* Each step is decided by the character at i, so backtracking finds no
\* other split.
RECURSIVE contentGroup(_, _)
contentGroup(s, i) ==
  IF i > Len(s) THEN i
  ELSE IF s[i] = bs
       THEN IF i + 1 <= Len(s) THEN contentGroup(s, i + 2) ELSE i
       ELSE IF s[i] = dq THEN i ELSE contentGroup(s, i + 1)

\* the writefile pass of parseTools on one tag: match[2] of each match
writefile_matchAll(tail) ==
  LET e == contentGroup(tail, 1)
  IN  IF e + 1 <= Len(tail) /\ tail[e] = dq /\ tail[e + 1] = tagEnd
      THEN <<SubSeq(tail, 1, e - 1)>>
      ELSE <<>>

\* String.prototype.replaceAll with a two-character pattern
RECURSIVE replaceAll(_, _, _)
replaceAll(s, pattern, replacement) ==
  IF Len(s) < 2 THEN s
  ELSE IF SubSeq(s, 1, 2) = pattern
       THEN replacement \o replaceAll(SubSeq(s, 3, Len(s)), pattern, replacement)
       ELSE <<s[1]>> \o replaceAll(Tail(s), pattern, replacement)

\* writeFile: the three replaceAll calls before Bun.write
processedContent(content) ==
  replaceAll(replaceAll(replaceAll(content, <<bs, "n">>, <<"\n">>),
                        <<bs, "t">>, <<"\t">>),
             <<bs, dq>>, <<dq>>)

\* one writefile tag goes through parseTools and writeFile
writefile_apply(tail) ==
  /\ variant = "content" /\ pc = "parse"
  /\ LET calls == writefile_matchAll(tail)
     IN  probe' = [of |-> "writefile", arg |-> tail,
                   value |-> [calls |-> calls,
                              written |-> IF calls = <<>> THEN <<>>
                                          ELSE processedContent(calls[1])]]
  /\ pc' = "parsed"
  /\ UNCHANGED <<variant, vocab, transcript, toolResponses, batch, messages, stack, turns, toolBudget,
                 provider, lastResponse, sent, lastExec, modelCalls, agentCalls, toolExecs, toolMsgs>>

\* ------------------------------------------- helpers of the batch variants
\* the text of a response as it is stored in a message
RECURSIVE Render(_)
Render(text) ==
  IF text = <<>> THEN <<>>
  ELSE <<"tag", text[1].name, text[1].arg>> \o Render(Tail(text))

\* a response stored under the user role
AssistantMessage_asUser(text) == Message("user", Render(text))

AssistantMessage(text) == Message("assistant", Render(text))

\* a for-loop that hands over to the model after every tool
moreTools_never == FALSE

\* `for (const tool of tools)`: the loop goes on while tools are left
moreTools == Top.i < Len(Top.tools)

\* a user input starts the count of calls, tools and results afresh
CountFromInput ==
  /\ modelCalls' = 1 /\ toolExecs' = 0 /\ toolMsgs' = 0
  /\ toolResponses' = 0 /\ batch' = <<>>
  /\ UNCHANGED agentCalls

\* a response has arrived: one more tool-bearing response if it holds a tag
CountResponse(tools) ==
  /\ toolResponses' = toolResponses + (IF tools = <<>> THEN 0 ELSE 1)
  /\ batch' = <<>>
  /\ UNCHANGED counters

\* a tool loop that collects its results before the model is called again
BatchFrame(tools) == [tools |-> tools, i |-> 1, results |-> <<>>]

StringExec(tool, op, result) ==
  [tool |-> tool, outcome |-> op, threw |-> op # "ok",
   aiOutput |-> result, userOutput |-> <<>>]

\* ------------------------------------- src/legacy/minimalistic-agent.ts
MiniToolOrder == <<"readfile", "writefile">>

MiniVocabulary == {Tag("readfile", "a"), Tag("writefile", "a")}

mini_parseTools(text) == parseToolsFrom(text, MiniToolOrder, 1)

mini_readFile(filename, op) ==
  IF op = "ok" THEN <<"content", filename>> ELSE ErrorMsg("reading", filename)

mini_writeFile(filename, content, op) ==
  IF op = "ok" THEN <<"File", filename, "written successfully">>
  ELSE ErrorMsg("writing", filename)

mini_executeTool(tool, op) ==
  CASE tool.name = "readfile"  -> mini_readFile(tool.arg, op)
    [] tool.name = "writefile" -> mini_writeFile(tool.arg, "content", op)
    [] OTHER                   -> <<"Unknown tool">>

\* a system prompt pushed at every runAgent call
mini_withSystemPrompt_always(msgs) == Append(msgs, systemPrompt)

\* `if (messages.length === 0) messages.push(system)`
mini_withSystemPrompt(msgs) ==
  IF Len(msgs) = 0 THEN <<systemPrompt>> ELSE msgs

\* startAgent reads a line; runAgent pushes the system prompt once, then the
\* user message, and calls the model
mini_runAgent ==
  /\ variant = "mini" /\ pc = "prompt" /\ turns < MaxTurns
  /\ messages' = Append(mini_withSystemPrompt(messages), UserMessage(UserInput(turns + 1)))
  /\ sent' = messages'
  /\ turns' = turns + 1
  /\ pc' = "call"
  /\ CountFromInput
  /\ UNCHANGED <<setup, probe, transcript, stack, toolBudget, lastResponse, lastExec>>

mini_exit ==
  /\ variant = "mini" /\ pc = "prompt"
  /\ pc' = "exited"
  /\ UNCHANGED <<setup, counters, perResponse, probe, transcript, messages, stack, turns, toolBudget,
                 lastResponse, sent, lastExec>>

\* generateText resolves in runAgent or runAgentContinue: the response is
\* pushed as an assistant message and parsed
mini_response(text) ==
  /\ variant = "mini" /\ pc = "call"
  /\ toolBudget' = Spend(text)
  /\ lastResponse' = [by |-> "runAgent", text |-> text]
  /\ messages' = Append(messages, AssistantMessage(text))
  /\ LET tools == mini_parseTools(text) IN
       /\ CountResponse(tools)
       /\ IF tools = <<>>
          THEN pc' = "prompt" /\ stack' = <<>>
          ELSE pc' = "exec" /\ stack' = <<BatchFrame(tools)>>
  /\ UNCHANGED <<setup, probe, transcript, turns, sent, lastExec>>

mini_modelFails ==
  /\ variant = "mini" /\ pc = "call" /\ provider = "flaky"
  /\ pc' = "crashed"
  /\ UNCHANGED <<setup, counters, perResponse, probe, transcript, messages, stack, turns, toolBudget,
                 lastResponse, sent, lastExec>>

\* one pass of the for-loop: the handler runs and its result is pushed; after
\* the last tool runAgentContinue calls the model
mini_loopBody(op) ==
  /\ variant = "mini" /\ pc = "exec"
  /\ LET result == mini_executeTool(CurrentTool, op) IN
       /\ lastExec' = StringExec(CurrentTool, op, result)
       /\ messages' = Append(messages, Message("user", <<"Tool result:">> \o result))
  /\ toolExecs' = toolExecs + 1
  /\ toolMsgs' = toolMsgs + 1
  /\ batch' = Append(batch, CurrentTool)
  /\ IF moreTools
     THEN /\ stack' = [stack EXCEPT ![Len(stack)].i = @ + 1]
          /\ UNCHANGED <<pc, sent, modelCalls>>
     ELSE /\ stack' = <<>>
          /\ pc' = "call"
          /\ sent' = messages'
          /\ modelCalls' = modelCalls + 1
  /\ UNCHANGED <<setup, probe, transcript, turns, toolBudget, lastResponse, agentCalls, toolResponses>>

NextMini ==
  \/ mini_runAgent
  \/ mini_exit
  \/ /\ variant = "mini" /\ pc = "call"
     /\ \E text \in ModelAnswers : mini_response(text)
  \/ mini_modelFails
  \/ \E op \in {"ok", "throws"} : mini_loopBody(op)

InitMini ==
  /\ variant = "mini"
  /\ vocab = MiniVocabulary
  /\ pc = "prompt"
  /\ messages = <<>>
  /\ InitCommon

\* ------------------------------------ src/unnamed/part_002 (AgentDemo)
Part2ToolOrder == <<"readfile", "writefile", "list", "bash">>

Part2Vocabulary == {Tag("readfile", "a"), Tag("bash", "a")}

part2_parseTools(text) == parseToolsFrom(text, Part2ToolOrder, 1)

\* FileOperations: every method catches and returns `Error: Could not ...`
part2_handler(tool, op) ==
  CASE tool.name = "readfile" ->
         IF op = "ok" THEN <<"content", tool.arg>>
         ELSE <<"Error", "Could not read file", tool.arg>>
    [] tool.name = "writefile" ->
         IF op = "ok" THEN <<"Successfully", "created", tool.arg>>
         ELSE <<"Error", "Could not write to file", tool.arg>>
    [] tool.name = "list" ->
         IF op = "ok" THEN <<"entries">> ELSE <<"Error", "Could not list directory">>
    [] tool.name = "bash" ->
         IF op = "ok" THEN <<"stdout", tool.arg>>
         ELSE <<"Error", "Could not execute command", tool.arg>>
    [] OTHER -> <<"Unknown tool:", tool.name>>

\* the operation under a handler returns or throws; a command that exits with
\* a non-zero status is turned into a thrown Error by runBashCommand
Part2Outcomes == {"ok", "throws"}

\* a history that is reset whenever a message is processed
part2_initHistory_always(history) == <<systemPrompt>>

\* `if (this.conversationHistory.length === 0) this.conversationHistory = [system]`
part2_initHistory(history) ==
  IF Len(history) = 0 THEN <<systemPrompt>> ELSE history

\* start reads a line (blank or not) and awaits processMessage(input), which
\* pushes the input unless it is blank and calls the model
part2_processMessage(blank) ==
  /\ variant = "part2" /\ pc = "prompt" /\ turns < MaxTurns
  /\ messages' = part2_initHistory(messages)
                   \o (IF blank THEN <<>> ELSE <<UserMessage(UserInput(turns + 1))>>)
  /\ sent' = messages'
  /\ turns' = turns + 1
  /\ pc' = "call"
  /\ CountFromInput
  /\ UNCHANGED <<setup, probe, transcript, stack, toolBudget, lastResponse, lastExec>>

part2_exit ==
  /\ variant = "part2" /\ pc = "prompt"
  /\ pc' = "exited"
  /\ UNCHANGED <<setup, counters, perResponse, probe, transcript, messages, stack, turns, toolBudget,
                 lastResponse, sent, lastExec>>

part2_response(text) ==
  /\ variant = "part2" /\ pc = "call"
  /\ toolBudget' = Spend(text)
  /\ lastResponse' = [by |-> "processMessage", text |-> text]
  /\ messages' = Append(messages, AssistantMessage(text))
  /\ LET tools == part2_parseTools(text) IN
       /\ CountResponse(tools)
       /\ IF tools = <<>>
          THEN pc' = "prompt" /\ stack' = <<>>
          ELSE pc' = "exec" /\ stack' = <<BatchFrame(tools)>>
  /\ UNCHANGED <<setup, probe, transcript, turns, sent, lastExec>>

\* generateText rejects: the catch of processMessage logs it and returns
part2_modelFails ==
  /\ variant = "part2" /\ pc = "call" /\ provider = "flaky"
  /\ pc' = "prompt"
  /\ UNCHANGED <<setup, counters, perResponse, probe, transcript, messages, stack, turns, toolBudget,
                 lastResponse, sent, lastExec>>

\* one pass of the for-loop; after the last tool the joined results are pushed
\* as one user message and processMessage("") calls the model
part2_loopBody(op) ==
  /\ variant = "part2" /\ pc = "exec"
  /\ op \in Part2Outcomes
  /\ LET result  == part2_handler(CurrentTool, op)
         results == Top.results \o <<"Tool", CurrentTool.name, "result:">> \o result
     IN
       /\ lastExec' = StringExec(CurrentTool, op, result)
       /\ IF moreTools
          THEN /\ stack' = [stack EXCEPT ![Len(stack)].i = @ + 1,
                                         ![Len(stack)].results = results]
               /\ UNCHANGED <<pc, sent, messages, modelCalls, toolMsgs>>
          ELSE /\ stack' = <<>>
               \* push, then processMessage("") runs the initialisation test again
               /\ messages' = part2_initHistory(Append(messages, Message("user", results)))
               /\ toolMsgs' = toolMsgs + Top.i
               /\ pc' = "call"
               /\ sent' = messages'
               /\ modelCalls' = modelCalls + 1
  /\ toolExecs' = toolExecs + 1
  /\ batch' = Append(batch, CurrentTool)
  /\ UNCHANGED <<setup, probe, transcript, turns, toolBudget, lastResponse, agentCalls, toolResponses>>

NextPart2 ==
  \/ \E blank \in BOOLEAN : part2_processMessage(blank)
  \/ part2_exit
  \/ /\ variant = "part2" /\ pc = "call"
     /\ \E text \in ModelAnswers : part2_response(text)
  \/ part2_modelFails
  \/ \E op \in Part2Outcomes : part2_loopBody(op)

InitPart2 ==
  /\ variant = "part2"
  /\ vocab = Part2Vocabulary
  /\ pc = "prompt"
  /\ messages = <<>>
  /\ InitCommon

\* ------------------------- src/index.ts, lines 939-1174 (class AgentDemo)
DemoToolOrder == <<"readfile", "editfile", "list">>

DemoVocabulary == {Tag("readfile", "a"), Tag("list", "")}

demo_parseTools(text) == parseToolsFrom(text, DemoToolOrder, 1)

demo_executeTool(tool, op) ==
  CASE tool.name = "readfile" ->
         IF op = "ok" THEN <<"content", tool.arg>>
         ELSE <<"Error", "Could not read file", tool.arg>>
    [] tool.name = "editfile" ->
         IF op = "ok" THEN <<"Successfully wrote to", tool.arg>>
         ELSE <<"Error", "Could not write to file", tool.arg>>
    [] tool.name = "list" ->
         IF op = "ok" THEN <<"entries">> ELSE <<"Error", "Could not list directory">>
    [] OTHER -> <<"Unknown tool:", tool.name>>

\* `if (messages.length === 0) messages = [system, user]`
demo_initMessages(msgs, userMessage) ==
  IF Len(msgs) = 0 THEN <<systemPrompt, UserMessage(userMessage)>> ELSE msgs

\* start reads a line and awaits processMessage(input): the second parameter
\* takes its default, an empty list
demo_processMessage ==
  /\ variant = "demo" /\ pc = "prompt" /\ turns < MaxTurns
  /\ messages' = demo_initMessages(<<>>, UserInput(turns + 1))
  /\ transcript' = Append(transcript, UserMessage(UserInput(turns + 1)))
  /\ sent' = messages'
  /\ turns' = turns + 1
  /\ pc' = "call"
  /\ UNCHANGED <<setup, counters, perResponse, probe, stack, toolBudget, lastResponse, lastExec>>

demo_exit ==
  /\ variant = "demo" /\ pc = "prompt"
  /\ pc' = "exited"
  /\ UNCHANGED <<setup, counters, perResponse, probe, transcript, messages, stack, turns, toolBudget,
                 lastResponse, sent, lastExec>>

demo_response(text) ==
  /\ variant = "demo" /\ pc = "call"
  /\ toolBudget' = Spend(text)
  /\ lastResponse' = [by |-> "processMessage", text |-> text]
  /\ messages' = Append(messages, AssistantMessage(text))
  /\ transcript' = Append(transcript, AssistantMessage(text))
  /\ LET tools == demo_parseTools(text) IN
       IF tools = <<>>
       THEN pc' = "prompt" /\ stack' = <<>>
       ELSE pc' = "exec" /\ stack' = <<BatchFrame(tools)>>
  /\ UNCHANGED <<setup, counters, perResponse, probe, turns, sent, lastExec>>

\* generateText rejects: the catch of processMessage logs it and returns
demo_modelFails ==
  /\ variant = "demo" /\ pc = "call" /\ provider = "flaky"
  /\ pc' = "prompt"
  /\ UNCHANGED <<setup, counters, perResponse, probe, transcript, messages, stack, turns, toolBudget,
                 lastResponse, sent, lastExec>>

\* one pass of the for-loop; after the last tool the joined results are pushed
\* and processMessage("", messages) calls the model with the same list
demo_loopBody(op) ==
  /\ variant = "demo" /\ pc = "exec"
  /\ LET result  == demo_executeTool(CurrentTool, op)
         results == Top.results \o <<"Tool", CurrentTool.name, "result:">> \o result
     IN
       /\ lastExec' = StringExec(CurrentTool, op, result)
       /\ IF Top.i < Len(Top.tools)
          THEN /\ stack' = [stack EXCEPT ![Len(stack)].i = @ + 1,
                                         ![Len(stack)].results = results]
               /\ UNCHANGED <<pc, sent, messages, transcript>>
          ELSE /\ stack' = <<>>
               /\ messages' = demo_initMessages(Append(messages, Message("user", results)), "")
               /\ transcript' = Append(transcript, Message("user", results))
               /\ pc' = "call"
               /\ sent' = messages'
  /\ UNCHANGED <<setup, counters, perResponse, probe, turns, toolBudget, lastResponse>>

NextDemo ==
  \/ demo_processMessage
  \/ demo_exit
  \/ /\ variant = "demo" /\ pc = "call"
     /\ \E text \in ModelAnswers : demo_response(text)
  \/ demo_modelFails
  \/ \E op \in {"ok", "throws"} : demo_loopBody(op)

InitDemo ==
  /\ variant = "demo"
  /\ vocab = DemoVocabulary
  /\ pc = "prompt"
  /\ messages = <<>>
  /\ InitCommon

\* ------------------------------ src/legacy/agent-ai-sdk.ts (AiSdkAgent)
SdkVocabulary == {Tag("readfile", "a"), Tag("bash", "a")}

\* the messages argument built inside processMessage
sdk_messages(userMessage) ==
  <<Message("system", <<"sdkSystemPrompt">>), UserMessage(userMessage)>>

\* start reads a line and awaits processMessage(input), which calls
\* generateText with the registered tools
sdk_processMessage ==
  /\ variant = "sdk" /\ pc = "prompt" /\ turns < MaxTurns
  /\ sent' = sdk_messages(UserInput(turns + 1))
  /\ transcript' = Append(transcript, UserMessage(UserInput(turns + 1)))
  /\ turns' = turns + 1
  /\ pc' = "call"
  /\ UNCHANGED <<setup, counters, perResponse, probe, messages, stack, toolBudget, lastResponse, lastExec>>

sdk_exit ==
  /\ variant = "sdk" /\ pc = "prompt"
  /\ pc' = "exited"
  /\ UNCHANGED <<setup, counters, perResponse, probe, transcript, messages, stack, turns, toolBudget,
                 lastResponse, sent, lastExec>>

\* generateText resolves; text and toolResults are logged and dropped
sdk_response(text) ==
  /\ variant = "sdk" /\ pc = "call"
  /\ toolBudget' = Spend(text)
  /\ lastResponse' = [by |-> "processMessage", text |-> text]
  /\ transcript' = Append(transcript, AssistantMessage(text))
  /\ pc' = "prompt"
  /\ UNCHANGED <<setup, counters, perResponse, probe, messages, stack, turns, sent, lastExec>>

sdk_modelFails ==
  /\ variant = "sdk" /\ pc = "call" /\ provider = "flaky"
  /\ pc' = "prompt"
  /\ UNCHANGED <<setup, counters, perResponse, probe, transcript, messages, stack, turns, toolBudget,
                 lastResponse, sent, lastExec>>

NextSdk ==
  \/ sdk_processMessage
  \/ sdk_exit
  \/ /\ variant = "sdk" /\ pc = "call"
     /\ \E text \in ModelAnswers : sdk_response(text)
  \/ sdk_modelFails

InitSdk ==
  /\ variant = "sdk"
  /\ vocab = SdkVocabulary
  /\ pc = "prompt"
  /\ messages = <<>>
  /\ InitCommon

\* ------------------------------------------------ src/unnamed/part_004
\* the tags of part_004 that are modelled, in the order of parseTools' passes
Part4ToolOrder == <<"readfile", "bash", "get_tweet", "grep">>

Part4Vocabularies ==
  { {Tag("readfile", "a"), Tag("bash", "a")},
    {Tag("grep", "a"), Tag("get_tweet", "a")} }

part4_parseTools(text) == parseToolsFrom(text, Part4ToolOrder, 1)

Part4Outcomes(name) ==
  CASE name = "readfile" -> {"ok", "unreadable"}
    [] name = "grep"     -> {"ok", "unreadable"}
    [] name = "bash"     -> {"ok", "nonzero", "throws"}
    [] OTHER             -> {"ok"}

\* readFile is not async and returns file.text() without awaiting it: the
\* promise is rejected after the try block has been left
part4_readFile(filename, op) ==
  IF op = "unreadable" THEN <<"rejected">>
  ELSE <<"content", filename>>

\* no try block: what Bun.spawnSync throws leaves the handler
part4_bash(command, op) ==
  IF op = "throws" THEN <<"rejected">> ELSE <<"stdout", command>>

part4_getTweet(tweet_id) == <<"Tweet", tweet_id>>

\* grep awaits readFile inside its own try block
part4_grep(pattern, file, op) ==
  LET content == part4_readFile(file, op) IN
    IF content = <<"rejected">> THEN ErrorMsg("grepping", file)
    ELSE <<"Pattern", pattern, "found or not found in", file>>

part4_executeTool(tool, op) ==
  CASE tool.name = "readfile"  -> part4_readFile(tool.arg, op)
    [] tool.name = "bash"      -> part4_bash(tool.arg, op)
    [] tool.name = "get_tweet" -> part4_getTweet(tool.arg)
    [] tool.name = "grep"      -> part4_grep(tool.arg, tool.arg, op)
    [] OTHER                   -> <<"Unknown tool:", tool.name>>

part4_runAgent ==
  /\ variant = "part4" /\ pc = "prompt" /\ turns < MaxTurns
  /\ messages' = Append(messages, UserMessage(UserInput(turns + 1)))
  /\ sent' = messages'
  /\ turns' = turns + 1
  /\ lastExec' = NoExec
  /\ pc' = "call"
  /\ UNCHANGED <<setup, counters, perResponse, probe, transcript, stack, toolBudget, lastResponse>>

part4_exit ==
  /\ variant = "part4" /\ pc = "prompt"
  /\ pc' = "exited"
  /\ UNCHANGED <<setup, counters, perResponse, probe, transcript, messages, stack, turns, toolBudget,
                 lastResponse, sent, lastExec>>

part4_response(text) ==
  /\ variant = "part4" /\ pc = "call"
  /\ toolBudget' = Spend(text)
  /\ lastResponse' = [by |-> "runAgent", text |-> text]
  /\ LET tools == part4_parseTools(text) IN
       IF tools = <<>>
       THEN pc' = "ret" /\ UNCHANGED stack
       ELSE pc' = "exec" /\ stack' = Append(stack, Frame(tools))
  /\ UNCHANGED <<setup, counters, perResponse, probe, transcript, messages, turns, sent, lastExec>>

\* generateText rejects: nothing catches it
part4_modelFails ==
  /\ variant = "part4" /\ pc = "call" /\ provider = "flaky"
  /\ pc' = "crashed"
  /\ UNCHANGED <<setup, counters, perResponse, probe, transcript, messages, stack, turns, toolBudget,
                 lastResponse, sent, lastExec>>

\* the loop body: await executeTool(tool); push the result; await runAgent()
part4_loopBody(op) ==
  /\ variant = "part4" /\ pc = "exec"
  /\ op \in Part4Outcomes(CurrentTool.name)
  /\ LET result == part4_executeTool(CurrentTool, op) IN
       /\ lastExec' = StringExec(CurrentTool, op, result)
       /\ IF result = <<"rejected">>
          THEN /\ pc' = "crashed"
               /\ UNCHANGED <<messages, sent>>
          ELSE /\ messages' = Append(messages, ToolMessage(CurrentTool, result))
               /\ sent' = messages'
               /\ pc' = "call"
  /\ UNCHANGED <<setup, counters, perResponse, probe, transcript, stack, turns, toolBudget, lastResponse>>

part4_nextTool ==
  /\ variant = "part4" /\ pc = "ret" /\ stack # <<>>
  /\ Top.i < Len(Top.tools)
  /\ stack' = [stack EXCEPT ![Len(stack)].i = @ + 1]
  /\ pc' = "exec"
  /\ UNCHANGED <<setup, counters, perResponse, probe, transcript, messages, turns, toolBudget, lastResponse,
                 sent, lastExec>>

part4_loopEnd ==
  /\ variant = "part4" /\ pc = "ret" /\ stack # <<>>
  /\ Top.i = Len(Top.tools)
  /\ stack' = Pop(stack)
  /\ UNCHANGED <<setup, counters, perResponse, probe, transcript, pc, messages, turns, toolBudget,
                 lastResponse, sent, lastExec>>

part4_resume ==
  /\ variant = "part4" /\ pc = "ret" /\ stack = <<>>
  /\ pc' = "prompt"
  /\ UNCHANGED <<setup, counters, perResponse, probe, transcript, messages, stack, turns, toolBudget,
                 lastResponse, sent, lastExec>>

NextPart4 ==
  \/ part4_runAgent
  \/ part4_exit
  \/ /\ variant = "part4" /\ pc = "call"
     /\ \E text \in ModelAnswers : part4_response(text)
  \/ part4_modelFails
  \/ \E op \in {"ok", "unreadable", "nonzero", "throws"} : part4_loopBody(op)
  \/ part4_nextTool
  \/ part4_loopEnd
  \/ part4_resume

InitPart4 ==
  /\ variant = "part4"
  /\ vocab \in Part4Vocabularies
  /\ pc = "prompt"
  /\ messages = <<systemPrompt>>
  /\ InitCommon

\* ------------------------ src/legacy/agent-ai-sdk.ts (EnhancedAgentDemo)
\* registry order of EnhancedAgentDemo.tools and of ModernAgentDemo's tools
RegistryToolOrder == <<"readfile", "writefile", "list", "bash">>

RegistryVocabulary == {Tag("readfile", "a"), Tag("bash", "a")}

RegistryOutcomes(name) ==
  IF name = "bash" THEN {"ok", "nonzero", "throws"} ELSE {"ok", "throws"}

\* what the operation under a handler returns, or the message of the Error it
\* throws
OperationValue(tool, op) ==
  CASE op = "ok" /\ tool.name = "readfile"  -> <<"content", tool.arg>>
    [] op = "ok" /\ tool.name = "writefile" -> <<"Successfully", "created", tool.arg>>
    [] op = "ok" /\ tool.name = "list"      -> <<"entries">>
    [] op = "ok" /\ tool.name = "bash"      -> <<"stdout", tool.arg>>
    [] op = "nonzero"                       -> <<"Command failed with exit code", tool.arg>>
    [] OTHER                                -> <<"ENOENT", tool.arg>>

\* withAnimation logs the failure and throws the error again
enhanced_handler(tool, op) ==
  [threw |-> op # "ok", value |-> OperationValue(tool, op)]

enhanced_parseTools(text) == parseToolsFrom(text, RegistryToolOrder, 1)

enhanced_initHistory(history) ==
  IF Len(history) = 0 THEN <<systemPrompt>> ELSE history

ThrowExec(tool, op, result) ==
  [tool |-> tool, outcome |-> op, threw |-> result.threw,
   aiOutput |-> result.value, userOutput |-> <<>>]

\* start reads a line that is not blank and awaits processMessage(input)
enhanced_processMessage ==
  /\ variant = "enhanced" /\ pc = "prompt" /\ turns < MaxTurns
  /\ messages' = Append(enhanced_initHistory(messages), UserMessage(UserInput(turns + 1)))
  /\ sent' = messages'
  /\ turns' = turns + 1
  /\ pc' = "call"
  /\ UNCHANGED <<setup, counters, perResponse, probe, transcript, stack, toolBudget, lastResponse, lastExec>>

enhanced_exit ==
  /\ variant = "enhanced" /\ pc = "prompt"
  /\ pc' = "exited"
  /\ UNCHANGED <<setup, counters, perResponse, probe, transcript, messages, stack, turns, toolBudget,
                 lastResponse, sent, lastExec>>

enhanced_response(text) ==
  /\ variant = "enhanced" /\ pc = "call"
  /\ toolBudget' = Spend(text)
  /\ lastResponse' = [by |-> "processMessage", text |-> text]
  /\ messages' = Append(messages, AssistantMessage(text))
  /\ LET tools == enhanced_parseTools(text) IN
       IF tools = <<>>
       THEN pc' = "prompt" /\ stack' = <<>>
       ELSE pc' = "exec" /\ stack' = <<BatchFrame(tools)>>
  /\ UNCHANGED <<setup, counters, perResponse, probe, transcript, turns, sent, lastExec>>

\* either generateText call rejects: the catch of processMessage logs it
enhanced_modelFails ==
  /\ variant = "enhanced" /\ pc \in {"call", "followup"} /\ provider = "flaky"
  /\ pc' = "prompt"
  /\ UNCHANGED <<setup, counters, perResponse, probe, transcript, messages, stack, turns, toolBudget,
                 lastResponse, sent, lastExec>>

\* one pass of the for-loop.  A handler that throws leaves the loop for the
\* catch of processMessage; after the last tool the joined results are pushed
\* and the follow-up call goes out
enhanced_loopBody(op) ==
  /\ variant = "enhanced" /\ pc = "exec"
  /\ op \in RegistryOutcomes(CurrentTool.name)
  /\ LET result  == enhanced_handler(CurrentTool, op)
         results == Top.results \o <<"Tool", CurrentTool.name, "result:">> \o result.value
     IN
       /\ lastExec' = ThrowExec(CurrentTool, op, result)
       /\ CASE result.threw ->
                 /\ stack' = <<>>
                 /\ pc' = "prompt"
                 /\ UNCHANGED <<sent, messages>>
            [] ~result.threw /\ Top.i < Len(Top.tools) ->
                 /\ stack' = [stack EXCEPT ![Len(stack)].i = @ + 1,
                                           ![Len(stack)].results = results]
                 /\ UNCHANGED <<pc, sent, messages>>
            [] OTHER ->
                 /\ stack' = <<>>
                 /\ messages' = Append(messages, Message("user", results))
                 /\ pc' = "followup"
                 /\ sent' = messages'
  /\ UNCHANGED <<setup, counters, perResponse, probe, transcript, turns, toolBudget, lastResponse>>

\* the follow-up response is pushed and not parsed
enhanced_followup(text) ==
  /\ variant = "enhanced" /\ pc = "followup"
  /\ toolBudget' = Spend(text)
  /\ lastResponse' = [by |-> "followup", text |-> text]
  /\ messages' = Append(messages, AssistantMessage(text))
  /\ pc' = "prompt"
  /\ UNCHANGED <<setup, counters, perResponse, probe, transcript, stack, turns, sent, lastExec>>

NextEnhanced ==
  \/ enhanced_processMessage
  \/ enhanced_exit
  \/ /\ variant = "enhanced" /\ pc = "call"
     /\ \E text \in ModelAnswers : enhanced_response(text)
  \/ enhanced_modelFails
  \/ \E op \in {"ok", "nonzero", "throws"} : enhanced_loopBody(op)
  \/ /\ variant = "enhanced" /\ pc = "followup"
     /\ \E text \in ModelAnswers : enhanced_followup(text)

InitEnhanced ==
  /\ variant = "enhanced"
  /\ vocab = RegistryVocabulary
  /\ pc = "prompt"
  /\ messages = <<>>
  /\ InitCommon

\* ----- src/legacy/index-modern.tsx (ModernAgentDemo), part_005 (InputPrompt)
\* messages is the React state conversationHistory; stack holds the
\* processMessage runs in flight, each with its newConversationHistory; pc is
\* "busy" while the state isProcessing is true.
isProcessing == pc = "busy"

\* an input prompt that is never disabled
InputPrompt_disabled_never == FALSE

\* AgentDemoApp: <InputPrompt disabled={isProcessing} />
InputPrompt_disabled == isProcessing

modern_parseTools(text) == parseToolsFrom(text, RegistryToolOrder, 1)

\* ModernFileOperations has no catch; executeTool marks the call failed and
\* throws the error again
modern_executeTool(tool, op) ==
  [threw |-> op # "ok", value |-> OperationValue(tool, op)]

Run(history) == [pc |-> "call", hist |-> history, tools |-> <<>>, i |-> 1, results |-> <<>>]

Without(s, r) == SubSeq(s, 1, r - 1) \o SubSeq(s, r + 1, Len(s))

\* InputPrompt.handleSubmit with a line that is neither blank nor "exit":
\* handleUserInput starts processMessage and does not await it.  The state
\* updates of the handler are rendered before the next input event.
modern_handleSubmit ==
  /\ variant = "modern" /\ pc \in {"prompt", "busy"} /\ turns < MaxTurns
  /\ ~InputPrompt_disabled
  /\ LET history == Append(enhanced_initHistory(messages), UserMessage(UserInput(turns + 1))) IN
       /\ stack' = Append(stack, Run(history))
       /\ sent' = history
  /\ pc' = "busy"
  /\ turns' = turns + 1
  /\ UNCHANGED <<setup, counters, perResponse, probe, transcript, messages, toolBudget, lastResponse, lastExec>>

\* handleUserInput with "exit": process.exit(0)
modern_exit ==
  /\ variant = "modern" /\ pc \in {"prompt", "busy"}
  /\ ~InputPrompt_disabled
  /\ pc' = "exited"
  /\ UNCHANGED <<setup, counters, perResponse, probe, transcript, messages, stack, turns, toolBudget,
                 lastResponse, sent, lastExec>>

\* generateText resolves in run r; without tools the run stores its history
\* (setConversationHistory) and ends (finally: setIsProcessing(false))
modern_response(r, text) ==
  /\ variant = "modern" /\ pc \in {"prompt", "busy"}
  /\ r \in DOMAIN stack /\ stack[r].pc = "call"
  /\ toolBudget' = Spend(text)
  /\ lastResponse' = [by |-> "processMessage", text |-> text]
  /\ LET history == Append(stack[r].hist, AssistantMessage(text))
         tools   == modern_parseTools(text)
     IN
       IF tools = <<>>
       THEN /\ messages' = history
            /\ stack' = Without(stack, r)
            /\ pc' = "prompt"
       ELSE /\ stack' = [stack EXCEPT ![r] = [pc |-> "exec", hist |-> history,
                                               tools |-> tools, i |-> 1, results |-> <<>>]]
            /\ UNCHANGED <<messages, pc>>
  /\ UNCHANGED <<setup, counters, perResponse, probe, transcript, turns, sent, lastExec>>

\* generateText rejects in run r: catch, then finally
modern_modelFails(r) ==
  /\ variant = "modern" /\ pc \in {"prompt", "busy"} /\ provider = "flaky"
  /\ r \in DOMAIN stack /\ stack[r].pc = "call"
  /\ stack' = Without(stack, r)
  /\ pc' = "prompt"
  /\ UNCHANGED <<setup, counters, perResponse, probe, transcript, messages, turns, toolBudget,
                 lastResponse, sent, lastExec>>

\* one pass of the for-loop of run r.  A tool that throws leaves the loop for
\* the catch of processMessage, which skips setConversationHistory
modern_loopBody(r, op) ==
  /\ variant = "modern" /\ pc \in {"prompt", "busy"}
  /\ r \in DOMAIN stack /\ stack[r].pc = "exec"
  /\ LET run     == stack[r]
         tool    == run.tools[run.i]
         result  == modern_executeTool(tool, op)
         results == run.results \o <<"Tool", tool.name, "result:">> \o result.value
     IN
       /\ op \in RegistryOutcomes(tool.name)
       /\ lastExec' = ThrowExec(tool, op, result)
       /\ CASE result.threw ->
                 /\ stack' = Without(stack, r)
                 /\ pc' = "prompt"
                 /\ UNCHANGED messages
            [] ~result.threw /\ run.i < Len(run.tools) ->
                 /\ stack' = [stack EXCEPT ![r].i = @ + 1, ![r].results = results]
                 /\ UNCHANGED <<pc, messages>>
            [] OTHER ->
                 /\ stack' = Without(stack, r)
                 /\ messages' = Append(run.hist, Message("user", results))
                 /\ pc' = "prompt"
  /\ UNCHANGED <<setup, counters, perResponse, probe, transcript, turns, toolBudget, lastResponse, sent>>

NextModern ==
  \/ modern_handleSubmit
  \/ modern_exit
  \/ /\ variant = "modern"
     /\ \E r \in DOMAIN stack : \E text \in ModelAnswers : modern_response(r, text)
  \/ /\ variant = "modern"
     /\ \E r \in DOMAIN stack : modern_modelFails(r)
  \/ /\ variant = "modern"
     /\ \E r \in DOMAIN stack : \E op \in {"ok", "nonzero", "throws"} : modern_loopBody(r, op)

InitModern ==
  /\ variant = "modern"
  /\ vocab = RegistryVocabulary
  /\ pc = "prompt"
  /\ messages = <<>>
  /\ InitCommon

\* ---------------------------------------------------------------- the system
\* src/index.ts: `const messages = [{ role: "system", content: systemPrompt }]`
InitIndex ==
  /\ variant = "index"
  /\ vocab \in IndexVocabularies
  /\ pc = "prompt"
  /\ messages = <<systemPrompt>>
  /\ InitCommon

InitParser ==
  /\ variant = "parser"
  /\ vocab = Tags
  /\ pc = "parse"
  /\ messages = <<>>
  /\ InitCommon
  /\ provider = "reliable"

InitLs ==
  /\ variant = "ls"
  /\ vocab = {Tag("ls", "a")}
  /\ pc = "parse"
  /\ messages = <<>>
  /\ InitCommon
  /\ provider = "reliable"

InitContent ==
  /\ variant = "content"
  /\ vocab = {Tag("writefile", "a")}
  /\ pc = "parse"
  /\ messages = <<>>
  /\ InitCommon
  /\ provider = "reliable"

Init ==
  \/ InitIndex
  \/ InitParser
  \/ InitLs
  \/ InitContent
  \/ InitMini
  \/ InitPart2
  \/ InitDemo
  \/ InitSdk
  \/ InitPart4
  \/ InitEnhanced
  \/ InitModern

NextIndex ==
  \/ IndexUser
  \/ IndexAgent

NextParser ==
  /\ variant = "parser" /\ pc = "parse"
  /\ \E text \in Texts : parseTools_apply(text)

NextLs ==
  /\ variant = "ls" /\ pc = "parse"
  /\ \E attr \in DepthAttrs : ls_apply(attr)

NextContent ==
  /\ variant = "content" /\ pc = "parse"
  /\ \E tail \in Tails : writefile_apply(tail)

Next ==
  \/ NextIndex
  \/ NextParser
  \/ NextLs
  \/ NextContent
  \/ NextMini
  \/ NextPart2
  \/ NextDemo
  \/ NextSdk
  \/ NextPart4
  \/ NextEnhanced
  \/ NextModern

Spec == Init /\ [][Next]_vars

\* One process of src/index.ts.  The remote model answers every call and every
\* platform call under a handler completes.
SpecIndex == InitIndex /\ [][NextIndex]_vars /\ WF_vars(IndexAgent)

\* ------------------------------------------------------------------ claims
InRun == pc \in {"call", "exec", "summ", "ret"}

\* C1: runAgent returns only after a response without tool tag, in every
\* branch of its recursion; and once the remote model answers without tags
\* (and answers), the running runAgent returns to the prompt.
C1_ReturnAfterTagFree ==
  pc = "ret" => /\ lastResponse.by = "runAgent"
                /\ \A name \in ToolNames : matchAll(lastResponse.text, name) = <<>>

C1_Quiet == toolBudget = 0 /\ provider = "reliable"

C1_FedBackUntilNoTools ==
  /\ [](variant = "index" => C1_ReturnAfterTagFree)
  /\ (variant = "index" /\ InRun /\ C1_Quiet) ~> (pc = "prompt")

\* a run that executed MaxToolTags tool calls has returned to the prompt
C1_Witness ==
  /\ variant = "index" /\ pc = "prompt" /\ toolExecs = MaxToolTags /\ provider = "reliable"

\* C2 (as stated): per tool call, in list order, one handler invocation, then
\* one user message with its aiOutput, then the model again before the next
\* tool; and the model calls made for one user input number 1 plus the tool
\* calls executed.
C2_Sequence ==
  /\ pc \in {"exec", "summ"} =>
       /\ toolExecs = toolMsgs + 1
       /\ agentCalls = toolExecs
  /\ pc = "call" =>
       /\ toolExecs = toolMsgs
       /\ agentCalls = toolMsgs + 1
       /\ lastExec # NoExec =>
            /\ lastExec.tool = CurrentTool
            /\ Last(messages) = Message("user", <<"tool", CurrentTool.name, CurrentTool.arg>>
                                                  \o lastExec.aiOutput)
  /\ (pc = "ret" \/ (pc = "prompt" /\ turns > 0)) =>
       /\ toolMsgs = toolExecs
       /\ agentCalls = 1 + toolExecs

C2_OneModelCallPerTool ==
  variant = "index" =>
    /\ C2_Sequence
    /\ (pc = "prompt" /\ turns > 0) => modelCalls = 1 + toolExecs

\* C2 (amended): the count is that of runAgent's own generateText calls; a
\* webfetch whose page was fetched makes one more call, inside the handler.
C2_OneAgentCallPerTool ==
  variant = "index" =>
    /\ C2_Sequence
    /\ (pc = "prompt" /\ turns > 0) =>
         /\ agentCalls = 1 + toolExecs
         /\ modelCalls >= agentCalls
         /\ modelCalls - agentCalls <= toolExecs

\* two tools were executed for one user input, one of them a webfetch that
\* made its summarisation call
C2_Witness ==
  /\ variant = "index" /\ pc = "prompt" /\ toolExecs = 2
  /\ agentCalls = 3 /\ modelCalls = 4

\* C3: in the variants that keep one shared list (runAgent of src/index.ts,
\* minimalistic-agent.ts, AgentDemo of part_002) every step leaves the history
\* it found as a prefix of the history it leaves.
C3_Step ==
  variant \in {"index", "mini", "part2"} => IsPrefix(messages, messages')

C3_AppendOnly == [][C3_Step]_vars

\* the second user input of part_002 has been pushed behind the whole first
\* exchange, tool results included
C3_Witness ==
  /\ variant = "part2" /\ pc = "call" /\ turns = 2
  /\ Len(messages) >= 6
  /\ messages[2] = UserMessage(UserInput(1))
  /\ Last(messages) = UserMessage(UserInput(2))

\* C4: in AgentDemo of src/index.ts and in AiSdkAgent the messages sent to the
\* model hold the user inputs, model responses and tool results of every
\* earlier turn.
C4_HistoryKeptAcrossTurns ==
  (variant \in {"demo", "sdk"} /\ pc = "call") =>
    \A i \in DOMAIN transcript : \E j \in DOMAIN sent : sent[j] = transcript[i]

C6_FailedCommandErrorPrefixed ==
  (variant = "index" /\ pc = "call" /\ lastExec.tool.name = "bash"
     /\ lastExec.outcome = "nonzero") =>
    IsErrorPrefixed(SubSeq(Last(messages).content, 4, Len(Last(messages).content)))

\* C7: in part_004 a readfile call on a file that cannot be read ends in
\* readFile's catch: the error string is appended as the tool result, runAgent
\* does not reject and the model is called again.
C7_UnreadableFileCaught ==
  (variant = "part4" /\ lastExec.tool.name = "readfile" /\ lastExec.outcome = "unreadable") =>
    /\ pc # "crashed"
    /\ \E i \in DOMAIN messages :
         messages[i] = ToolMessage(lastExec.tool, ErrorMsg("reading", lastExec.tool.arg))

\* C8: in EnhancedAgentDemo and ModernAgentDemo the error text of a tool whose
\* operation failed is in the history as that tool's result and is part of the
\* context of the next model call.
Contains(s, sub) ==
  \E k \in 0..(Len(s) - Len(sub)) : SubSeq(s, k + 1, k + Len(sub)) = sub

\* model calls that have been made and have not resolved or rejected yet
ModelCallsOutstanding ==
  IF variant = "modern"
  THEN Cardinality({r \in DOMAIN stack : stack[r].pc = "call"})
  ELSE IF pc \in {"call", "summ", "followup"} THEN 1 ELSE 0

\* tool handlers that have been invoked and have not returned or thrown yet
HandlersExecuting ==
  IF variant = "modern"
  THEN Cardinality({r \in DOMAIN stack : stack[r].pc = "exec"})
  ELSE IF pc \in {"exec", "summ"} THEN 1 ELSE 0

C8_ErrorTextInContext ==
  (variant \in {"enhanced", "modern"} /\ lastExec.threw /\ ModelCallsOutstanding > 0) =>
    \E j \in DOMAIN sent :
      /\ sent[j].role = "user"
      /\ Contains(sent[j].content, lastExec.aiOutput)

RankIn(order, name) == CHOOSE i \in 1..Len(order) : order[i] = name

GroupedByKindIn(order, text, tools) ==
  /\ Len(tools) = Len(text)
  /\ \A i, j \in 1..Len(tools) :
       i < j => RankIn(order, tools[i].name) <= RankIn(order, tools[j].name)
  /\ \A k \in 1..Len(order) :
       SelectSeq(tools, LAMBDA t : t.name = order[k])
         = SelectSeq(text, LAMBDA t : t.name = order[k])

GroupedByKind(text, tools) == GroupedByKindIn(ToolOrder, text, tools)

C10_GroupedByKind ==
  /\ (variant = "parser" /\ stack # <<>>) => GroupedByKind(lastResponse.text, Top.tools)
  /\ (variant = "index" /\ pc = "exec" /\ Top.i = 1 /\ lastExec = NoExec) =>
       GroupedByKind(lastResponse.text, Top.tools)
  /\ (variant = "part2" /\ pc = "exec" /\ Top.i = 1) =>
       GroupedByKindIn(Part2ToolOrder, lastResponse.text, Top.tools)

\* an ls tag written before a readfile tag comes out after it
C10_Witness ==
  /\ variant = "parser" /\ stack # <<>>
  /\ lastResponse.text = <<Tag("ls", "a"), Tag("readfile", "b")>>
  /\ Top.tools = <<Tag("readfile", "b"), Tag("ls", "a")>>

\* ---------------------------------------------------------------- C11
\* C11: the dispatch loop has no step limit. runAgent (src/index.ts) returns
\* from a model call only on a response without a tool tag, and every tool
\* result it pushes is followed by one more model call, however many calls
\* were made before; runAgent / runAgentContinue of minimalistic-agent.ts
\* go back to the prompt only on a response without a tool tag. The number
\* of calls of one invocation is therefore whatever the model's tags make it.
C11_Step ==
  /\ (variant = "index" /\ pc = "call" /\ pc' = "ret")
       => parseTools(lastResponse'.text) = <<>>
  /\ (variant = "index" /\ pc \in {"exec", "summ"} /\ pc' \notin {"exec", "summ", "crashed"})
       => (pc' = "call" /\ agentCalls' = agentCalls + 1 /\ stack' = stack)
  /\ (variant = "mini" /\ pc = "call" /\ pc' = "prompt")
       => mini_parseTools(lastResponse'.text) = <<>>
  /\ (variant = "mini" /\ pc = "exec" /\ pc' \notin {"exec", "crashed"})
       => pc' = "call"

C11_NoStepLimit == [][C11_Step]_vars

\* a tag in every response so far: more model calls than the model had tags
\* to give, one open invocation per response, and none of them has returned
C11_Witness ==
  /\ variant = "index" /\ pc = "call"
  /\ agentCalls = MaxToolTags + 1
  /\ Len(stack) = MaxToolTags
  /\ toolBudget = 0

\* ---------------------------------------------------------------- C12
\* C12: in startAgent of src/index.ts the input "exit" ends the interactive
\* loop: the step that takes it makes no model call and leaves messages as
\* they were, nothing happens after it (no further prompt, no further call),
\* and "exit" is never stored as a user input; every other step taken at the
\* prompt is a runAgent call that pushes the line read and calls the model.
C12_Step ==
  variant = "index" =>
    /\ pc # "exited"
    /\ (pc = "prompt" /\ pc' = "exited")
         => /\ messages' = messages /\ sent' = sent
            /\ modelCalls' = modelCalls /\ agentCalls' = agentCalls
            /\ turns' = turns
    /\ (pc = "prompt" /\ pc' # "exited")
         => /\ pc' = "call"
            /\ turns' = turns + 1
            /\ messages' = Append(messages, UserMessage(UserInput(turns')))
            /\ sent' = messages'
            /\ modelCalls' = 1 /\ agentCalls' = 1

C12_ExitEndsLoop == [][C12_Step]_vars

\* "exit" typed after a conversation that used a tool
C12_Witness ==
  /\ variant = "index" /\ pc = "exited"
  /\ turns >= 1 /\ lastExec # NoExec
  /\ sent = messages

\* ---------------------------------------------------------------- C13
\* C13: bash commands are filtered for safety: a bash tool call whose
\* command is harmful (it is `rm -rf /`) is never handed to the shell by the
\* bash handler of src/index.ts.
C13_HarmfulCommandFiltered ==
  (variant = "index" /\ Harmful(lastExec.tool.arg)) => ~ReachedShell(lastExec)

\* ---------------------------------------------------------------- C14
\* C14: the agent follows the one-tool-per-response pattern: for each model
\* response, runAgent of src/index.ts executes at most one tool call (in every
\* open invocation the for-loop has not gone past the first tool of its
\* response).
C14_OneToolPerResponse ==
  variant = "index" => \A k \in 1..Len(stack) : stack[k].i <= 1

\* ---------------------------------------------------------------- C15
\* C15: writefile requires reading first: in src/index.ts a writefile tool
\* call on a file is executed only if a readfile tool call on the same file
\* was executed earlier in the same conversation (its result is in messages).
ReadEarlier(file) ==
  \E i \in 1..Len(messages) :
    /\ Len(messages[i].content) >= 3
    /\ SubSeq(messages[i].content, 1, 3) = <<"tool", "readfile", file>>

C15_WriteAfterRead ==
  (variant = "index" /\ lastExec.tool.name = "writefile") => ReadEarlier(lastExec.tool.arg)

\* ---------------------------------------------------------------- C16
\* C16: for every ls tool call in src/index.ts the depth handed to the
\* directory-tree listing lies in 1..10: a missing or non-numeric depth
\* attribute yields the default 3, a numeric depth below 1 becomes 1, a
\* numeric depth above 10 becomes 10, and a numeric depth in 1..10 is kept.
C16_DepthClamped ==
  probe.of = "ls" =>
    /\ probe.value \in LeastDepth..GreatestDepth
    /\ probe.arg.kind # "int" => probe.value = DefaultDepth
    /\ (probe.arg.kind = "int" /\ probe.arg.n < LeastDepth) => probe.value = LeastDepth
    /\ (probe.arg.kind = "int" /\ probe.arg.n > GreatestDepth) => probe.value = GreatestDepth
    /\ (probe.arg.kind = "int" /\ probe.arg.n \in LeastDepth..GreatestDepth)
         => probe.value = probe.arg.n

\* ---------------------------------------------------------------- C17
\* C17: the writefile regex of src/index.ts supports \" inside the content
\* attribute. A double quote is escaped when an odd number of backslashes
\* stands right before it. A tag whose closing quote is its first unescaped
\* quote is parsed as exactly one writefile call; whenever the tag is parsed,
\* the content is the text before the first unescaped quote; and writeFile
\* writes it with every \" turned into a plain double quote: each quote of
\* the content is in the written text and the backslash before it is not.
RECURSIVE BackslashRun(_, _)
BackslashRun(s, i) ==
  IF i >= 1 /\ s[i] = bs THEN 1 + BackslashRun(s, i - 1) ELSE 0

Unescaped(s, i) == s[i] = dq /\ BackslashRun(s, i - 1) % 2 = 0

\* the position of the first unescaped quote, 0 when every quote is escaped
FirstUnescaped(s) ==
  IF \E i \in 1..Len(s) : Unescaped(s, i)
  THEN CHOOSE i \in 1..Len(s) : Unescaped(s, i) /\ \A j \in 1..(i - 1) : ~Unescaped(s, j)
  ELSE 0

Occurrences(s, c) == Cardinality({i \in 1..Len(s) : s[i] = c})

\* s without the backslash in front of each double quote
WithoutQuoteEscapes(s) ==
  LET keep == {i \in 1..Len(s) : ~(s[i] = bs /\ i < Len(s) /\ s[i + 1] = dq)}
      nth(k) == CHOOSE i \in keep : Cardinality({j \in keep : j < i}) = k - 1
  IN  [k \in 1..Cardinality(keep) |-> s[nth(k)]]

C17_EscapedQuotes ==
  probe.of = "writefile" =>
    LET tail  == probe.arg
        q     == FirstUnescaped(tail)
        calls == probe.value.calls
    IN  /\ Len(calls) <= 1
        /\ q = Len(tail) - 1 => Len(calls) = 1
        /\ calls # <<>> =>
             /\ q > 0
             /\ calls[1] = SubSeq(tail, 1, q - 1)
             /\ Occurrences(probe.value.written, dq) = Occurrences(calls[1], dq)
             /\ probe.value.written
                  = WithoutQuoteEscapes(replaceAll(replaceAll(calls[1], <<bs, "n">>, <<"\n">>),
                                                   <<bs, "t">>, <<"\t">>))

\* a content made of two escaped quotes is parsed whole and written as two
\* plain quotes
C17_Witness ==
  /\ probe.of = "writefile"
  /\ probe.arg = <<bs, dq, bs, dq, dq, tagEnd>>
  /\ probe.value.calls = << <<bs, dq, bs, dq>> >>
  /\ probe.value.written = <<dq, dq>>

\* ---------------------------------------------------------------- C18
\* C18: in minimalistic-agent.ts and in AgentDemo.processMessage of part_002
\* all tool calls parsed from one response are executed, in parsed order, and
\* all their results are in the history before the model is called again; the
\* model is re-invoked once per tool-bearing response, so the model calls of
\* one user input number 1 plus the tool-bearing responses.
BatchParse(text) ==
  IF variant = "mini" THEN mini_parseTools(text) ELSE part2_parseTools(text)

C18_BatchThenOneCall ==
  (variant \in {"mini", "part2"} /\ turns > 0) =>
    \* while the tools of a response run, no call has been made for it yet
    /\ pc = "exec" =>
         /\ modelCalls = toolResponses
         /\ Top.tools = BatchParse(lastResponse.text)
         /\ batch = SubSeq(Top.tools, 1, Top.i - 1)
    \* a call that follows a tool-bearing response: every tool was run, in
    \* parsed order, and every result is in the list that is sent
    /\ (pc = "call" /\ toolResponses > 0) =>
         /\ batch = BatchParse(lastResponse.text)
         /\ toolMsgs = toolExecs
         /\ sent = messages
         /\ Last(messages).role = "user"
    /\ pc \in {"call", "prompt", "exited"} => modelCalls = 1 + toolResponses

\* a response with two tools: both have run, then the second call goes out
C18_Witness ==
  /\ variant \in {"mini", "part2"} /\ pc = "call"
  /\ Len(batch) = 2
  /\ toolResponses = 1 /\ modelCalls = 2 /\ toolMsgs = 2

\* ---------------------------------------------------------------- C19
\* C19: in EnhancedAgentDemo.processMessage and ModernAgentDemo.processMessage
\* tool results are fed back to the model in a loop that repeats until a
\* response contains no tool tag: when a user input has been dealt with and
\* neither a model call nor a tool failed, the last response of the model
\* holds no tool tag.
C19_LoopUntilTagFree ==
  ( /\ variant \in {"enhanced", "modern"}
    /\ pc = "prompt" /\ turns > 0
    /\ provider = "reliable" /\ ~lastExec.threw
    /\ lastResponse.by # "none" )
  => enhanced_parseTools(lastResponse.text) = <<>>

\* ---------------------------------------------------------------- C20
\* C20: runAgent of src/index.ts keeps the conversation history with proper
\* role separation: the system prompt under the system role, each user input
\* under the user role, each model response under the assistant role, so
\* every model call after the first is sent the model's latest response as
\* an assistant message.
C20_RolesSeparated ==
  variant = "index" =>
    /\ messages[1] = systemPrompt
    /\ \A i \in 2..Len(messages) : messages[i].role \in {"user", "assistant"}
    /\ (pc = "call" /\ lastResponse.by = "runAgent" /\ agentCalls > 1)
         => \E j \in 1..Len(sent) : sent[j] = AssistantMessage(lastResponse.text)

\* ---------------------------------------------------------------- C21
\* C21: in minimalistic-agent.ts and in AgentDemo.processMessage of part_002
\* every model response is in the history as an assistant message before any
\* of its tools runs, and every tool-result user message comes after the
\* assistant message that holds the tag which asked for it: while the tools
\* of a response run, that response is the assistant message right before
\* the results pushed so far, and the nearest assistant message before any
\* tool-result message holds a tag of the tool kinds.
IsToolResult(m) ==
  /\ m.role = "user"
  /\ m.content # <<>>
  /\ m.content[1] \in {"Tool result:", "Tool"}

\* the position of the nearest assistant message before position i, or 0
AssistantBefore(i) ==
  IF \E j \in 1..(i - 1) : messages[j].role = "assistant"
  THEN CHOOSE j \in 1..(i - 1) :
         /\ messages[j].role = "assistant"
         /\ \A k \in (j + 1)..(i - 1) : messages[k].role # "assistant"
  ELSE 0

C21_AssistantBeforeResults ==
  variant \in {"mini", "part2"} =>
    /\ pc = "exec" =>
         LET pushed == IF variant = "mini" THEN Len(batch) ELSE 0
         IN  /\ Len(messages) > pushed
             /\ messages[Len(messages) - pushed] = AssistantMessage(lastResponse.text)
    /\ \A i \in 1..Len(messages) :
         IsToolResult(messages[i]) =>
           /\ AssistantBefore(i) > 0
           /\ messages[AssistantBefore(i)].content # <<>>
           /\ \A k \in (AssistantBefore(i) + 1)..(i - 1) : IsToolResult(messages[k])

\* two results of one response in the history, both after its assistant message
C21_Witness ==
  /\ variant = "mini" /\ pc = "call"
  /\ Len(batch) = 2
  /\ IsToolResult(messages[Len(messages)])
  /\ IsToolResult(messages[Len(messages) - 1])
  /\ messages[Len(messages) - 2] = AssistantMessage(lastResponse.text)

\* ---------------------------------------------------------------- C22
\* C22: the system prompt is added only once: at every model call of
\* minimalistic-agent.ts, of runAgent in src/index.ts and of AgentDemo in
\* part_002, the list that is sent holds exactly one system-role message and
\* it is the first element, whatever inputs and continuations came before.
SystemMessages(msgs) == {i \in 1..Len(msgs) : msgs[i].role = "system"}

C22_OneSystemPrompt ==
  (variant \in {"mini", "index", "part2"} /\ pc = "call") =>
    /\ sent = messages
    /\ SystemMessages(sent) = {1}
    /\ sent[1] = systemPrompt

\* a model call of the second user input, after a continuation of the first
C22_Witness ==
  /\ variant = "mini" /\ pc = "call"
  /\ turns = 2
  /\ \E i \in 1..Len(messages) : IsToolResult(messages[i])
  /\ Len(messages) >= 6

\* ---------------------------------------------------------------- C23
\* C23: webFetch of src/index.ts reports a network failure as an
\* error-prefixed result. When the response is not OK or fetch throws, the
\* handler returns `Error fetching <url>` as aiOutput and no summarisation
\* call is made: the only model call that follows is runAgent's next one.
\* When the page was fetched, the summarisation call is sent a fresh list of
\* two messages, and whatever its outcome the shared history only grows by
\* the tool message that runAgent pushes.
C23_Step ==
  (variant = "index" /\ stack # <<>> /\ CurrentTool.name = "webfetch") =>
    /\ (pc = "exec" /\ pc' = "call") =>
         /\ lastExec'.outcome \in {"notOk", "fetchThrows"}
         /\ lastExec'.aiOutput = ErrorMsg("fetching", CurrentTool.arg)
         /\ IsErrorPrefixed(lastExec'.aiOutput)
         /\ modelCalls' = modelCalls + 1 /\ agentCalls' = agentCalls + 1
         /\ messages' = Append(messages, ToolMessage(CurrentTool, lastExec'.aiOutput))
         /\ sent' = messages'
    /\ (pc = "exec" /\ pc' = "summ") =>
         /\ messages' = messages
         /\ Len(sent') = 2
         /\ \A i \in 1..2 : \A j \in 1..Len(messages) : sent'[i] # messages[j]
         /\ modelCalls' = modelCalls + 1 /\ agentCalls' = agentCalls
    /\ pc = "exec" => pc' \in {"call", "summ"}
    /\ pc = "summ" =>
         /\ pc' = "call"
         /\ lastExec'.outcome \in {"ok", "summaryThrows"}
         /\ messages' = Append(messages, ToolMessage(CurrentTool, lastExec'.aiOutput))
         /\ sent' = messages'

C23_NetworkFailureReported == [][C23_Step]_vars

\* a page that answered with a status that is not OK: the error text is in
\* the history and the second model call is runAgent's
C23_Witness ==
  /\ variant = "index" /\ pc = "call"
  /\ lastExec.tool.name = "webfetch" /\ lastExec.outcome = "notOk"
  /\ modelCalls = 2 /\ agentCalls = 2
  /\ Last(messages) = ToolMessage(lastExec.tool, ErrorMsg("fetching", lastExec.tool.arg))

====
